---- MODULE Spec2Model ----
(***************************************************************************)
(* Model of scripts/06_serve.py (Lumi inference server).                   *)
(*                                                                         *)
(* Text is a sequence of one-character strings.  Floating point options    *)
(* are kept in tenths (0.7 is 7, 1.1 is 11).  A token is one character of  *)
(* the text, plus the special end-of-sequence / padding tokens, which the  *)
(* decoder drops (skip_special_tokens=True).                               *)
(***************************************************************************)
EXTENDS Integers, Sequences, FiniteSets, TLC

(***************************************************************************)
(* Bounds of the model.                                                    *)
(***************************************************************************)
\* number of API /generate requests that may be submitted
NReq == 2
\* number of lines the console user may type (end-of-input is always possible)
MaxLines == 2

(***************************************************************************)
(* Text helpers (Python str methods used by the script).                   *)
(***************************************************************************)
Whitespace == {" ", "\n", "\t"}

RECURSIVE lstrip(_)
lstrip(s) ==
    IF s = <<>> THEN <<>>
    ELSE IF Head(s) \in Whitespace THEN lstrip(Tail(s)) ELSE s

RECURSIVE rstrip(_)
rstrip(s) ==
    IF s = <<>> THEN <<>>
    ELSE IF s[Len(s)] \in Whitespace THEN rstrip(SubSeq(s, 1, Len(s) - 1)) ELSE s

\* str.strip()
strip(s) == rstrip(lstrip(s))

\* one character of str.lower(), over the letters the model types
lower_char(c) ==
    CASE c = "E" -> "e" [] c = "X" -> "x" [] c = "I" -> "i" [] c = "T" -> "t"
      [] c = "Q" -> "q" [] c = "U" -> "u" [] c = "A" -> "a" [] c = "B" -> "b"
      [] OTHER -> c

\* str.lower()
lower(s) == [i \in 1..Len(s) |-> lower_char(s[i])]

\* s[n:]  (Python slice: empty when n >= len(s))
slice_from(s, n) == IF n >= Len(s) THEN <<>> ELSE SubSeq(s, n + 1, Len(s))

\* s.startswith(p)
startswith(s, p) == Len(p) <= Len(s) /\ SubSeq(s, 1, Len(p)) = p

(***************************************************************************)
(* ModelServer.format_prompt                                               *)
(***************************************************************************)
im_start == <<"<", "|", "i", "m", "_", "s", "t", "a", "r", "t", "|", ">">>
im_end == <<"<", "|", "i", "m", "_", "e", "n", "d", "|", ">">>
chatml_head == im_start \o <<"u", "s", "e", "r", "\n">>
chatml_tail ==
    <<"\n">> \o im_end \o <<"\n">> \o im_start
        \o <<"a", "s", "s", "i", "s", "t", "a", "n", "t", "\n">>
chat_head == <<"H", "u", "m", "a", "n", ":", " ">>
chat_tail == <<"\n", "\n", "A", "s", "s", "i", "s", "t", "a", "n", "t", ":", " ">>
instruct_head ==
    <<"#", "#", "#", " ", "I", "n", "s", "t", "r", "u", "c", "t", "i", "o", "n", ":", "\n">>
instruct_tail ==
    <<"\n", "\n", "#", "#", "#", " ", "R", "e", "s", "p", "o", "n", "s", "e", ":", "\n">>

\* an unrecognised template treated as chatml
format_prompt_unknown_is_chatml(prompt, template) ==
    IF template = "chat" THEN chat_head \o prompt \o chat_tail
    ELSE IF template = "instruct" THEN instruct_head \o prompt \o instruct_tail
    ELSE IF template = "raw" THEN prompt
    ELSE chatml_head \o prompt \o chatml_tail

format_prompt(prompt, template) ==
    IF template = "chatml" THEN chatml_head \o prompt \o chatml_tail
    ELSE IF template = "chat" THEN chat_head \o prompt \o chat_tail
    ELSE IF template = "instruct" THEN instruct_head \o prompt \o instruct_tail
    ELSE prompt

(***************************************************************************)
(* The external capabilities: tokenizer and model (transformers / torch).  *)
(***************************************************************************)
\* max_length of the tokenizer call
max_length == 2048
\* no_repeat_ngram_size of the generation configuration
no_repeat_ngram_size == 3

\* the end-of-sequence token of a tokenizer that has one
eos_token == "</s>"

\* self.tokenizer(formatted_prompt, truncation=True, max_length=2048).input_ids
tokenizer_encode(text) ==
    IF Len(text) > max_length THEN SubSeq(text, 1, max_length) ELSE text

\* self.tokenizer.decode(outputs[0], skip_special_tokens=True)
tokenizer_decode(server, ids) ==
    LET keep(t) == t \notin {server.eos_token, server.pad_token}
    IN  SelectSeq(ids, keep)

\* the text the model appends when decoding greedily: a function of its input
greedy_continuation(input_ids) ==
    IF input_ids = <<>> THEN <<"z">> ELSE <<" ", input_ids[1], "\n">>

\* the texts the model may append when sampling
sampled_continuations(input_ids) ==
    {greedy_continuation(input_ids), <<>>, input_ids}

\* what self.model.generate may append to input_ids under a configuration
model_continuations(input_ids, config) ==
    IF config.do_sample THEN sampled_continuations(input_ids)
    ELSE {greedy_continuation(input_ids)}

\* outputs[0] of self.model.generate: the input followed by the new tokens
\* and the end-of-sequence token
model_generate(input_ids, continuation, config) ==
    input_ids \o continuation \o <<config.eos_token_id>>

\* the stages of generate at which an external capability may raise
Stages == {"tokenize", "generate", "decode"}

(***************************************************************************)
(* GenerationRequest: the API payload with its defaults applied.           *)
(***************************************************************************)
Opt(payload, field, default) ==
    IF field \in DOMAIN payload THEN payload[field] ELSE default

\* a model whose temperature default is 1.0
GenerationRequest_temperature_1(payload) ==
    [prompt |-> payload.prompt,
     max_new_tokens |-> Opt(payload, "max_new_tokens", 100),
     temperature |-> Opt(payload, "temperature", 10),
     top_p |-> Opt(payload, "top_p", 9),
     repetition_penalty |-> Opt(payload, "repetition_penalty", 11),
     do_sample |-> Opt(payload, "do_sample", TRUE),
     template |-> Opt(payload, "template", "chatml")]

GenerationRequest(payload) ==
    [prompt |-> payload.prompt,
     max_new_tokens |-> Opt(payload, "max_new_tokens", 100),
     temperature |-> Opt(payload, "temperature", 7),
     top_p |-> Opt(payload, "top_p", 9),
     repetition_penalty |-> Opt(payload, "repetition_penalty", 11),
     do_sample |-> Opt(payload, "do_sample", TRUE),
     template |-> Opt(payload, "template", "chatml")]

\* the payloads clients send
Payloads ==
    {[prompt |-> <<"a">>],
     [prompt |-> <<"b", " ", "c">>, template |-> "plain", max_new_tokens |-> 5,
      temperature |-> 10, top_p |-> 10, repetition_penalty |-> 10,
      do_sample |-> FALSE]}

(***************************************************************************)
(* Command line (argparse) and ModelServer.__init__                        *)
(***************************************************************************)
argparse_defaults ==
    [model_path_exists |-> TRUE, load_raises |-> FALSE, tokenizer_pad_token |-> "None",
     tokenizer_eos_token |-> eos_token,
     mode |-> "interactive", max_new_tokens |-> 100, temperature |-> 7, top_p |-> 9,
     repetition_penalty |-> 11, do_sample |-> TRUE, template |-> "chatml"]

\* the command lines the process may be started with, and the model and
\* tokenizer found at the paths they name
ArgvSet ==
    {argparse_defaults,
     [argparse_defaults EXCEPT !.template = "raw", !.tokenizer_pad_token = "<pad>"],
     [argparse_defaults EXCEPT !.template = "chat", !.max_new_tokens = 5],
     [argparse_defaults EXCEPT !.template = "instruct", !.temperature = 10],
     [argparse_defaults EXCEPT !.tokenizer_eos_token = "None"],
     [argparse_defaults EXCEPT !.mode = "api"],
     [argparse_defaults EXCEPT !.model_path_exists = FALSE],
     [argparse_defaults EXCEPT !.mode = "api", !.load_raises = TRUE]}

NoServer ==
    [loaded |-> FALSE, model |-> "None", pad_token |-> "None", eos_token |-> "None",
     device |-> "None"]

\* ModelServer.__init__ on a model and tokenizer that load
ModelServer(a) ==
    [loaded |-> TRUE, model |-> "eval",
     pad_token |-> IF a.tokenizer_pad_token = "None" THEN a.tokenizer_eos_token
                   ELSE a.tokenizer_pad_token,
     eos_token |-> a.tokenizer_eos_token, device |-> "cpu"]

(***************************************************************************)
(* State                                                                   *)
(***************************************************************************)
VARIABLES
    args,          \* the parsed command line
    mainPc,        \* position of main()
    model_server,  \* the ModelServer instance
    frames,        \* one ModelServer.generate activation per caller
    conState,      \* console state machine
    raw_line,      \* what input() last returned, before strip()
    user_input,    \* the console's user_input
    input_event,   \* how the last input() call ended
    linesRead,     \* lines read by input()
    engineCalls,   \* calls of model_server.generate made by the console
    stdout,        \* what the console printed
    requests,      \* the API /generate requests
    executing,     \* /generate handlers that entered and have not returned
    failures,      \* 500 responses sent
    loads,         \* calls of the ModelServer constructor made by main
    front_ends,    \* the front ends main has started
    invocations    \* per caller: calls of generate and of self.model.generate

vars == <<args, mainPc, model_server, frames, conState, raw_line, user_input, input_event,
          linesRead, engineCalls, stdout, requests, executing, failures,
          loads, front_ends, invocations>>

consoleVars == <<conState, raw_line, user_input, input_event, linesRead, engineCalls, stdout>>
apiVars == <<requests, executing, failures>>

Console == 0
Requests == 1..NReq
Callers == {Console} \cup Requests

NoConfig ==
    [max_new_tokens |-> 0, temperature |-> 0, top_p |-> 0, repetition_penalty |-> 0,
     do_sample |-> FALSE, pad_token_id |-> "None", eos_token_id |-> "None",
     early_stopping |-> FALSE, no_repeat_ngram_size |-> 0]

NoFrame ==
    [pc |-> "idle", prompt |-> <<>>, template |-> "None", params |-> NoConfig,
     raises |-> "none", sample |-> <<>>,
     formatted_prompt |-> <<>>, input_ids |-> <<>>, generation_config |-> NoConfig,
     outputs |-> <<>>, full_response |-> <<>>, generated_response |-> <<>>,
     exc |-> "None", cause |-> "None"]

NoRequest ==
    [state |-> "unsent", payload |-> [prompt |-> <<>>], request |-> GenerationRequest([prompt |-> <<>>]),
     raises |-> "none", sample |-> <<>>, failuresBefore |-> 0, arrivedBehind |-> {},
     engine_config |-> NoConfig, engine_template |-> "None",
     endpoint |-> "generate", during |-> {},
     status |-> 0, body |-> [detail |-> <<>>], responses |-> 0]

Init ==
    /\ args \in ArgvSet
    /\ mainPc = "check_path"
    /\ model_server = NoServer
    /\ frames = [c \in Callers |-> NoFrame]
    /\ conState = "Idle"
    /\ raw_line = <<>>
    /\ user_input = <<>>
    /\ input_event = "none"
    /\ linesRead = 0
    /\ engineCalls = 0
    /\ stdout = <<>>
    /\ requests = [r \in Requests |-> NoRequest]
    /\ executing = {}
    /\ failures = 0
    /\ loads = 0
    /\ front_ends = {}
    /\ invocations = [c \in Callers |-> [generate |-> 0, model |-> 0]]

(***************************************************************************)
(* main()                                                                  *)
(***************************************************************************)
\* if not Path(args.model_path).exists(): sys.exit(1)
main_check_path ==
    /\ mainPc = "check_path"
    /\ mainPc' = IF args.model_path_exists THEN "load" ELSE "exit1"
    /\ UNCHANGED <<args, loads, front_ends, invocations, model_server, frames, consoleVars, apiVars>>

\* the except clause of the load without its sys.exit(1)
main_load_ignore_failure ==
    /\ mainPc = "load"
    /\ mainPc' = "dispatch"
    /\ model_server' = IF args.load_raises THEN model_server ELSE ModelServer(args)
    /\ loads' = loads + 1
    /\ UNCHANGED <<args, front_ends, invocations, frames, consoleVars, apiVars>>

\* model_server = ModelServer(...), sys.exit(1) when it raises
main_load ==
    /\ mainPc = "load"
    /\ IF args.load_raises
       THEN /\ mainPc' = "exit1"
            /\ UNCHANGED model_server
       ELSE /\ mainPc' = "dispatch"
            /\ model_server' = ModelServer(args)
    /\ loads' = loads + 1
    /\ UNCHANGED <<args, front_ends, invocations, frames, consoleVars, apiVars>>

\* the front end main starts for a mode
front_end(mode) ==
    IF mode = "interactive" THEN "interactive"
    ELSE IF mode = "api" THEN "api" ELSE "done"

\* if args.mode == "interactive": interactive_mode(...) elif "api": uvicorn.run(...)
main_dispatch ==
    /\ mainPc = "dispatch"
    /\ mainPc' = front_end(args.mode)
    /\ IF front_end(args.mode) = "interactive"
       THEN /\ conState' = "AwaitingInput"
            /\ stdout' = Append(stdout, [kind |-> "banner", text |-> <<>>])
            /\ UNCHANGED <<raw_line, user_input, input_event, linesRead, engineCalls>>
       ELSE UNCHANGED consoleVars
    /\ front_ends' = front_ends \cup ({front_end(args.mode)} \ {"done"})
    /\ UNCHANGED <<args, loads, invocations, model_server, frames, apiVars>>

\* the API server started after the console returns
main_return_then_api ==
    /\ mainPc = "interactive"
    /\ conState = "Exited"
    /\ mainPc' = "api"
    /\ front_ends' = front_ends \cup {"api"}
    /\ UNCHANGED <<args, loads, invocations, model_server, frames, consoleVars, apiVars>>

\* interactive_mode returned: main ends
main_return ==
    /\ mainPc = "interactive"
    /\ conState = "Exited"
    /\ mainPc' = "done"
    /\ UNCHANGED <<args, loads, front_ends, invocations, model_server, frames, consoleVars, apiVars>>

(***************************************************************************)
(* ModelServer.generate, one activation per caller                         *)
(***************************************************************************)
\* the keyword arguments of generate, with the defaults of its signature
generate_signature(kwargs) ==
    [max_new_tokens |-> Opt(kwargs, "max_new_tokens", 100),
     temperature |-> Opt(kwargs, "temperature", 7),
     top_p |-> Opt(kwargs, "top_p", 9),
     repetition_penalty |-> Opt(kwargs, "repetition_penalty", 11),
     do_sample |-> Opt(kwargs, "do_sample", TRUE),
     template |-> Opt(kwargs, "template", "chatml")]

\* the activation created by a call of model_server.generate
generate_call(prompt, params, raises) ==
    [NoFrame EXCEPT !.pc = "called", !.prompt = prompt,
                    !.template = generate_signature(params).template,
                    !.params = generate_signature(params), !.raises = raises]


\* a failed call leaves the model unloaded
server_after_raise_unloaded(server) == [server EXCEPT !.model = "None"]

\* the state of the server after one of its generate calls raised
server_after_raise(server) == server

\* the frame of a call that raises at a stage
generate_raise(f, stage) ==
    [f EXCEPT !.pc = "raised", !.exc = "Exception", !.cause = stage]

\* a caller whose activation may take a step: the console while Generating,
\* a /generate handler while it holds the event loop
running(c) ==
    IF c = Console THEN mainPc = "interactive" /\ conState = "Generating"
    ELSE mainPc = "api" /\ c \in executing

\* the external capabilities work on a loaded server, and raise at the stage
\* at which the input makes them raise
stage_raises(f, stage) == f.raises = stage \/ ~model_server.loaded \/ model_server.model # "eval"

\* formatted_prompt = self.format_prompt(prompt, template)
generate_format(c) ==
    /\ running(c)
    /\ frames[c].pc = "called"
    /\ frames' = [frames EXCEPT ![c].pc = "formatted",
                    ![c].formatted_prompt = format_prompt(frames[c].prompt, frames[c].template)]
    /\ UNCHANGED <<args, loads, front_ends, invocations, mainPc, model_server, consoleVars, apiVars>>

\* a configuration that always samples
generation_config_sampling(f, server) ==
    [max_new_tokens |-> f.params.max_new_tokens,
     temperature |-> f.params.temperature,
     top_p |-> f.params.top_p,
     repetition_penalty |-> f.params.repetition_penalty,
     do_sample |-> TRUE,
     pad_token_id |-> server.eos_token,
     eos_token_id |-> server.eos_token,
     early_stopping |-> TRUE,
     no_repeat_ngram_size |-> no_repeat_ngram_size]

\* generation_config = {...}
generation_config(f, server) ==
    [max_new_tokens |-> f.params.max_new_tokens,
     temperature |-> f.params.temperature,
     top_p |-> f.params.top_p,
     repetition_penalty |-> f.params.repetition_penalty,
     do_sample |-> f.params.do_sample,
     pad_token_id |-> server.eos_token,
     eos_token_id |-> server.eos_token,
     early_stopping |-> TRUE,
     no_repeat_ngram_size |-> no_repeat_ngram_size]

\* inputs = self.tokenizer(...).to(self.device); generation_config = {...}
generate_tokenize(c) ==
    /\ running(c)
    /\ frames[c].pc = "formatted"
    /\ IF stage_raises(frames[c], "tokenize")
       THEN /\ frames' = [frames EXCEPT ![c] = generate_raise(@, "tokenize")]
            /\ model_server' = server_after_raise(model_server)
       ELSE /\ frames' = [frames EXCEPT ![c].pc = "tokenized",
                            ![c].input_ids = tokenizer_encode(frames[c].formatted_prompt),
                            ![c].generation_config = generation_config(frames[c], model_server)]
            /\ UNCHANGED model_server
    /\ UNCHANGED <<args, loads, front_ends, invocations, mainPc, consoleVars, apiVars>>

\* with torch.no_grad(): self.model.generate( ... is entered
generate_model_enter(c) ==
    /\ running(c)
    /\ frames[c].pc = "tokenized"
    /\ frames' = [frames EXCEPT ![c].pc = "in_model"]
    /\ invocations' = [invocations EXCEPT ![c].model = @ + 1]
    /\ UNCHANGED <<args, loads, front_ends, mainPc, model_server, consoleVars, apiVars>>

\* ... self.model.generate returns outputs, or raises
generate_model_return(c) ==
    /\ running(c)
    /\ frames[c].pc = "in_model"
    /\ IF stage_raises(frames[c], "generate")
       THEN /\ frames' = [frames EXCEPT ![c] = generate_raise(@, "generate")]
            /\ model_server' = server_after_raise(model_server)
       ELSE /\ \E cont \in model_continuations(frames[c].input_ids, frames[c].generation_config) :
                 frames' = [frames EXCEPT ![c].pc = "generated",
                              ![c].sample = cont,
                              ![c].outputs = model_generate(frames[c].input_ids, cont,
                                                            frames[c].generation_config)]
            /\ UNCHANGED model_server
    /\ UNCHANGED <<args, loads, front_ends, invocations, mainPc, consoleVars, apiVars>>

\* full_response = self.tokenizer.decode(outputs[0], skip_special_tokens=True)
generate_decode(c) ==
    /\ running(c)
    /\ frames[c].pc = "generated"
    /\ IF stage_raises(frames[c], "decode")
       THEN /\ frames' = [frames EXCEPT ![c] = generate_raise(@, "decode")]
            /\ model_server' = server_after_raise(model_server)
       ELSE /\ frames' = [frames EXCEPT ![c].pc = "decoded",
                            ![c].full_response = tokenizer_decode(model_server, frames[c].outputs)]
            /\ UNCHANGED model_server
    /\ UNCHANGED <<args, loads, front_ends, invocations, mainPc, consoleVars, apiVars>>


\* the slice without the strip()
extract_response_unstripped(full_response, formatted_prompt) ==
    slice_from(full_response, Len(formatted_prompt))

\* full_response[len(formatted_prompt):].strip()
extract_response(full_response, formatted_prompt) ==
    strip(slice_from(full_response, Len(formatted_prompt)))

\* generated_response = ...; return formatted_prompt, generated_response
generate_return(c) ==
    /\ running(c)
    /\ frames[c].pc = "decoded"
    /\ frames' = [frames EXCEPT ![c].pc = "returned",
                    ![c].generated_response =
                        extract_response(frames[c].full_response, frames[c].formatted_prompt)]
    /\ UNCHANGED <<args, loads, front_ends, invocations, mainPc, model_server, consoleVars, apiVars>>

(***************************************************************************)
(* interactive_mode                                                        *)
(***************************************************************************)
ExitKeywords == {<<"e", "x", "i", "t">>, <<"q", "u", "i", "t">>, <<"q">>}


\* the comparison without lower()
is_exit_command_case_sensitive(line) == line \in ExitKeywords

\* user_input.lower() in ['exit', 'quit', 'q']
is_exit_command(line) == lower(line) \in ExitKeywords


\* the empty-input test left out
is_empty_input_never(line) == FALSE

\* if not user_input: continue
is_empty_input(line) == line = <<>>

\* the lines the user types
ConsoleLines ==
    {<<>>, <<" ">>, <<"a">>, <<" ", "q", "a", "\n">>, <<"e", "x", "i", "t">>,
     <<"E", "X", "I", "T">>, <<"q">>, <<" ", "Q", "u", "i", "t", " ">>}

\* the parameters the console passes to generate
console_params(a) ==
    [max_new_tokens |-> a.max_new_tokens, temperature |-> a.temperature,
     top_p |-> a.top_p, repetition_penalty |-> a.repetition_penalty,
     do_sample |-> a.do_sample, template |-> a.template]


\* an except clause that does not match what generate raises
console_except_none(exc) == FALSE

\* a bare except, which also catches KeyboardInterrupt
console_except_BaseException(exc) == TRUE

\* except Exception as e  (KeyboardInterrupt is not an Exception)
console_except_Exception(exc) == exc = "Exception"

print(kind, text) == Append(stdout, [kind |-> kind, text |-> text])

\* user_input = input(...).strip() and the tests on it, up to the call of generate
console_read_line ==
    /\ mainPc = "interactive"
    /\ conState = "AwaitingInput"
    /\ linesRead < MaxLines
    /\ \E line \in ConsoleLines :
         /\ raw_line' = line
         /\ user_input' = strip(line)
         /\ input_event' = "line"
         /\ linesRead' = linesRead + 1
         /\ IF is_exit_command(strip(line))
            THEN /\ stdout' = print("goodbye", <<>>)
                 /\ conState' = "Exited"
                 /\ UNCHANGED <<frames, engineCalls, invocations>>
            ELSE IF is_empty_input(strip(line))
            THEN /\ conState' = "AwaitingInput"
                 /\ UNCHANGED <<stdout, frames, engineCalls, invocations>>
            ELSE /\ stdout' = print("label", <<>>)
                 /\ conState' = "Generating"
                 /\ engineCalls' = engineCalls + 1
                 /\ invocations' = [invocations EXCEPT ![Console].generate = @ + 1]
                 /\ \E raises \in {"none"} \cup Stages :
                      frames' = [frames EXCEPT ![Console] =
                                   generate_call(strip(line), console_params(args), raises)]
    /\ UNCHANGED <<args, loads, front_ends, mainPc, model_server, apiVars>>

\* input() raises EOFError
console_eof ==
    /\ mainPc = "interactive"
    /\ conState = "AwaitingInput"
    /\ input_event' = "EOFError"
    /\ stdout' = print("goodbye", <<>>)
    /\ conState' = "Exited"
    /\ UNCHANGED <<args, loads, front_ends, invocations, mainPc, model_server, frames, raw_line, user_input, linesRead,
                   engineCalls, apiVars>>

\* input() raises KeyboardInterrupt
console_interrupt_input ==
    /\ mainPc = "interactive"
    /\ conState = "AwaitingInput"
    /\ input_event' = "KeyboardInterrupt"
    /\ stdout' = print("goodbye", <<>>)
    /\ conState' = "Exited"
    /\ UNCHANGED <<args, loads, front_ends, invocations, mainPc, model_server, frames, raw_line, user_input, linesRead,
                   engineCalls, apiVars>>

\* KeyboardInterrupt is raised inside the inner try (lines 256-270)
console_interrupt_generating ==
    /\ mainPc = "interactive"
    /\ conState = "Generating"
    /\ frames[Console].exc # "KeyboardInterrupt"
    /\ frames' = [frames EXCEPT ![Console].pc = "raised",
                    ![Console].exc = "KeyboardInterrupt", ![Console].cause = "interrupt"]
    /\ UNCHANGED <<args, loads, front_ends, invocations, mainPc, model_server, consoleVars, apiVars>>

\* print(response)
console_print_response ==
    /\ mainPc = "interactive"
    /\ conState = "Generating"
    /\ frames[Console].pc = "returned"
    /\ stdout' = print("response", frames[Console].generated_response)
    /\ conState' = "AwaitingInput"
    /\ frames' = [frames EXCEPT ![Console] = NoFrame]
    /\ UNCHANGED <<args, loads, front_ends, invocations, mainPc, model_server, raw_line, user_input, input_event,
                   linesRead, engineCalls, apiVars>>

\* except Exception as e: print(error)   and the outer   except KeyboardInterrupt
console_except ==
    /\ mainPc = "interactive"
    /\ conState = "Generating"
    /\ frames[Console].pc = "raised"
    /\ IF console_except_Exception(frames[Console].exc)
       THEN /\ stdout' = print("error", frames[Console].cause)
            /\ conState' = "AwaitingInput"
       ELSE /\ stdout' = print("goodbye", <<>>)
            /\ conState' = "Exited"
    /\ frames' = [frames EXCEPT ![Console] = NoFrame]
    /\ UNCHANGED <<args, loads, front_ends, invocations, mainPc, model_server, raw_line, user_input, input_event,
                   linesRead, engineCalls, apiVars>>

(***************************************************************************)
(* create_app: the /generate endpoint                                      *)
(***************************************************************************)

\* a plain def handler: the framework runs it in a thread pool
handler_may_enter_threadpool(entered) == TRUE

\* handlers that hand the model call to an executor and await it
handler_may_enter_suspended(entered) == \A r \in entered : frames[r].pc = "in_model"

\* async def generate, without an await: the event loop enters a handler only
\* when no other handler is between its entry and its return
handler_may_enter(entered) == entered = {}

\* the endpoints without a request body
InfoEndpoints == {"root", "health"}

\* what root() and health() return
info_response(endpoint, server) ==
    IF endpoint = "root"
    THEN [message |-> "Lumi Model Server", model_device |-> server.device,
          model_parameters |-> server.model,
          available_templates |-> <<"chatml", "chat", "instruct", "raw">>,
          endpoints |-> {"generate", "health"}]
    ELSE [status |-> "healthy", device |-> server.device]

\* a client sends GET / or GET /health; the request waits for the event loop
api_submit_info(r) ==
    /\ mainPc = "api"
    /\ requests[r].state = "unsent"
    /\ \A q \in Requests : q < r => requests[q].state # "unsent"
    /\ \E e \in InfoEndpoints :
         requests' = [requests EXCEPT ![r].state = "pending", ![r].endpoint = e,
                        ![r].failuresBefore = failures,
                        ![r].arrivedBehind = executing]
    /\ UNCHANGED <<args, loads, front_ends, invocations, mainPc, model_server, frames,
                   consoleVars, executing, failures>>

\* async def root / async def health: entered by the event loop and run to
\* their return
api_info(r) ==
    /\ mainPc = "api"
    /\ requests[r].state = "pending"
    /\ requests[r].endpoint \in InfoEndpoints
    /\ handler_may_enter(executing)
    /\ requests' = [requests EXCEPT ![r].state = "responded", ![r].status = 200,
                      ![r].body = info_response(requests[r].endpoint, model_server),
                      ![r].during = executing,
                      ![r].responses = @ + 1]
    /\ UNCHANGED <<args, loads, front_ends, invocations, mainPc, model_server, frames,
                   consoleVars, executing, failures>>

\* the call without its temperature argument
api_params_without_temperature(request) ==
    [max_new_tokens |-> request.max_new_tokens,
     top_p |-> request.top_p, repetition_penalty |-> request.repetition_penalty,
     do_sample |-> request.do_sample, template |-> request.template]

\* the arguments of model_server.generate(...) in the handler
api_params(request) ==
    [max_new_tokens |-> request.max_new_tokens, temperature |-> request.temperature,
     top_p |-> request.top_p, repetition_penalty |-> request.repetition_penalty,
     do_sample |-> request.do_sample, template |-> request.template]


\* the response echoes the formatted prompt
response_prompt_formatted(request, formatted_prompt) == formatted_prompt

\* the prompt of the GenerationResponse
response_prompt(request, formatted_prompt) == request.prompt

\* GenerationResponse(response=..., prompt=..., generation_config={...})
GenerationResponse(request, formatted_prompt, response) ==
    [response |-> response,
     prompt |-> response_prompt(request, formatted_prompt),
     generation_config |->
        [max_new_tokens |-> request.max_new_tokens, temperature |-> request.temperature,
         top_p |-> request.top_p, repetition_penalty |-> request.repetition_penalty,
         template |-> request.template]]


\* an except clause that does not match what generate raises
api_except_none(exc) == FALSE

\* except Exception as e
api_except_Exception(exc) == exc = "Exception"

\* HTTPException(status_code=500, detail=f"Erreur de génération: {str(e)}")
HTTPException(cause) == [detail |-> <<"Erreur de generation: ", cause>>]

\* a client posts a payload to /generate; the request waits for the event loop
api_submit(r) ==
    /\ mainPc = "api"
    /\ requests[r].state = "unsent"
    /\ \A q \in Requests : q < r => requests[q].state # "unsent"
    /\ \E p \in Payloads :
         requests' = [requests EXCEPT ![r].state = "pending", ![r].payload = p,
                        ![r].request = GenerationRequest(p),
                        ![r].failuresBefore = failures,
                        ![r].arrivedBehind = executing]
    /\ UNCHANGED <<args, loads, front_ends, invocations, mainPc, model_server, frames, consoleVars, executing, failures>>

\* the handler is entered and calls model_server.generate
api_generate_enter(r) ==
    /\ mainPc = "api"
    /\ requests[r].state = "pending"
    /\ requests[r].endpoint = "generate"
    /\ handler_may_enter(executing)
    /\ executing' = executing \cup {r}
    /\ \E raises \in {"none"} \cup Stages :
         /\ requests' = [requests EXCEPT ![r].state = "running", ![r].raises = raises]
         /\ frames' = [frames EXCEPT ![r] =
                         generate_call(requests[r].request.prompt,
                                       api_params(requests[r].request), raises)]
    /\ invocations' = [invocations EXCEPT ![r].generate = @ + 1]
    /\ UNCHANGED <<args, loads, front_ends, mainPc, model_server, consoleVars, failures>>

\* return GenerationResponse(...)
api_generate_return(r) ==
    /\ mainPc = "api"
    /\ r \in executing
    /\ frames[r].pc = "returned"
    /\ requests' = [requests EXCEPT ![r].state = "responded", ![r].status = 200,
                      ![r].sample = frames[r].sample,
                      ![r].engine_config = frames[r].generation_config,
                      ![r].engine_template = frames[r].template,
                      ![r].body = GenerationResponse(requests[r].request,
                                                     frames[r].formatted_prompt,
                                                     frames[r].generated_response),
                      ![r].responses = @ + 1]
    /\ frames' = [frames EXCEPT ![r] = NoFrame]
    /\ executing' = executing \ {r}
    /\ UNCHANGED <<args, loads, front_ends, invocations, mainPc, model_server, consoleVars, failures>>


\* the handler calls generate again instead of answering
api_generate_except_retry(r) ==
    /\ mainPc = "api"
    /\ r \in executing
    /\ frames[r].pc = "raised"
    /\ frames' = [frames EXCEPT ![r] =
                    generate_call(requests[r].request.prompt,
                                  api_params(requests[r].request), frames[r].raises)]
    /\ UNCHANGED <<args, loads, front_ends, invocations, mainPc, model_server, consoleVars, apiVars>>

\* the handler calls generate a second time after a first failure
api_generate_except_retry_once(r) ==
    /\ mainPc = "api"
    /\ r \in executing
    /\ frames[r].pc = "raised"
    /\ IF invocations[r].generate < 2
       THEN /\ frames' = [frames EXCEPT ![r] =
                            generate_call(requests[r].request.prompt,
                                          api_params(requests[r].request), frames[r].raises)]
            /\ invocations' = [invocations EXCEPT ![r].generate = @ + 1]
            /\ UNCHANGED <<requests, failures, executing>>
       ELSE /\ requests' = [requests EXCEPT ![r].state = "responded", ![r].status = 500,
                              ![r].body = HTTPException(frames[r].cause),
                              ![r].responses = @ + 1]
            /\ failures' = failures + 1
            /\ frames' = [frames EXCEPT ![r] = NoFrame]
            /\ executing' = executing \ {r}
            /\ UNCHANGED invocations
    /\ UNCHANGED <<args, loads, front_ends, mainPc, model_server, consoleVars>>

\* except Exception as e: raise HTTPException(500); anything else reaches the
\* framework, which answers 500 without the cause
api_generate_except(r) ==
    /\ mainPc = "api"
    /\ r \in executing
    /\ frames[r].pc = "raised"
    /\ requests' = [requests EXCEPT ![r].state = "responded", ![r].status = 500,
                      ![r].body = IF api_except_Exception(frames[r].exc)
                                  THEN HTTPException(frames[r].cause)
                                  ELSE [detail |-> <<"Internal Server Error">>],
                      ![r].responses = @ + 1]
    /\ failures' = failures + 1
    /\ frames' = [frames EXCEPT ![r] = NoFrame]
    /\ executing' = executing \ {r}
    /\ UNCHANGED <<args, loads, front_ends, invocations, mainPc, model_server, consoleVars>>

(***************************************************************************)
(* Specifications                                                          *)
(***************************************************************************)
generate_step(c) ==
    \/ generate_format(c)
    \/ generate_tokenize(c)
    \/ generate_model_enter(c)
    \/ generate_model_return(c)
    \/ generate_decode(c)
    \/ generate_return(c)

api_step(r) ==
    \/ api_info(r)
    \/ api_generate_enter(r)
    \/ generate_step(r)
    \/ api_generate_return(r)
    \/ api_generate_except(r)

Next ==
    \/ main_check_path
    \/ main_load
    \/ main_dispatch
    \/ main_return
    \/ console_read_line
    \/ console_eof
    \/ console_interrupt_input
    \/ console_interrupt_generating
    \/ console_print_response
    \/ console_except
    \/ \E c \in Callers : generate_step(c)
    \/ \E r \in Requests : api_submit(r)
    \/ \E r \in Requests : api_submit_info(r)
    \/ \E r \in Requests : api_info(r)
    \/ \E r \in Requests : api_generate_enter(r)
    \/ \E r \in Requests : api_generate_return(r)
    \/ \E r \in Requests : api_generate_except(r)

Spec == Init /\ [][Next]_vars

\* the event loop runs a ready handler when there is one, and every call a
\* handler makes returns
FairSpec == Spec /\ WF_vars(\E r \in Requests : api_step(r))

(***************************************************************************)
(* Properties                                                              *)
(***************************************************************************)
InModel == {c \in Callers : frames[c].pc = "in_model"}

\* C1: at most one call of ModelServer.generate is inside self.model.generate,
\* whatever number of /generate requests arrived concurrently
C1_OneGenerationAtATime == Cardinality(InModel) <= 1

\* a handler is inside self.model.generate while another request waits
C1_Witness ==
    \E r, q \in Requests :
        r # q /\ frames[r].pc = "in_model" /\ requests[q].state = "pending"

\* C2: a request that arrives while a handler is in flight waits and is then
\* served: every pending request is eventually answered, and while a handler
\* is in flight no other handler enters or moves and it is not abandoned
C2_WaitThenProceed ==
    /\ \A r \in Requests :
         (requests[r].state = "pending") ~> (requests[r].state = "responded")
    /\ [][\A r \in executing :
            /\ r \in executing' \/ requests'[r].state = "responded"
            /\ \A q \in Requests \ {r} :
                 /\ frames'[q] = frames[q]
                 /\ (q \in executing') = (q \in executing)]_vars

\* a request that arrived behind an in-flight handler has been answered
C2_Witness ==
    \E r \in Requests :
        /\ requests[r].endpoint = "generate"
        /\ requests[r].arrivedBehind # {} /\ requests[r].state = "responded"

\* the completion of a request whose model call appended `sample`
own_completion(r) == strip(requests[r].sample)

\* C3: a success response carries the request's own raw prompt and the
\* completion of the continuation the model produced for that request's own
\* formatted prompt and parameters
C3_OwnResult ==
    \A r \in Requests :
        (/\ requests[r].endpoint = "generate"
         /\ requests[r].state = "responded" /\ requests[r].status = 200) =>
            /\ requests[r].body.prompt = requests[r].payload.prompt
            /\ requests[r].body.response = own_completion(r)
            /\ requests[r].sample \in
                 model_continuations(
                     format_prompt(requests[r].payload.prompt, requests[r].request.template),
                     requests[r].request)
            /\ (requests[r].payload.prompt = <<"b", " ", "c">>
                    => requests[r].body.response = <<"b">>)

\* two requests with different prompts, the second arrived while the first
\* was in flight, both answered
C3_Witness ==
    \E r, q \in Requests :
        /\ r # q
        /\ requests[r].endpoint = "generate" /\ requests[q].endpoint = "generate"
        /\ requests[r].state = "responded" /\ requests[r].status = 200
        /\ requests[q].state = "responded" /\ requests[q].status = 200
        /\ r \in requests[q].arrivedBehind
        /\ requests[r].payload.prompt # requests[q].payload.prompt
        /\ requests[r].body.response # requests[q].body.response

\* C4: a failed generate call changes nothing of the loaded server, and a
\* call on which no external capability raises succeeds, whatever calls
\* failed before it
C4_UsableAfterFailure ==
    /\ [](\A c \in Callers :
            (frames[c].pc = "raised" /\ frames[c].exc = "Exception")
                => frames[c].cause = frames[c].raises)
    /\ [](\A r \in Requests :
            (requests[r].state = "responded" /\ requests[r].raises = "none")
                => requests[r].status = 200)
    /\ [][model_server.loaded => model_server' = model_server]_vars

\* a request answered with success after an earlier request failed
C4_Witness ==
    \E r \in Requests :
        /\ requests[r].endpoint = "generate"
        /\ requests[r].state = "responded" /\ requests[r].status = 200
        /\ requests[r].failuresBefore >= 1
        /\ model_server = ModelServer(args)

\* C5 as stated: the returned completion never starts with the formatted prompt
C5_NeverStartsWithPrompt ==
    \A c \in Callers :
        frames[c].pc = "returned" =>
            ~startswith(frames[c].generated_response, frames[c].formatted_prompt)

\* C5, amended: the completion is what follows the first len(formatted_prompt)
\* characters of the decoded text, with surrounding whitespace trimmed; when
\* the decoded text starts with the formatted prompt, that one occurrence is
\* what is removed
C5_PrefixRemovedOnce ==
    \A c \in Callers :
        frames[c].pc = "returned" =>
            LET full == frames[c].full_response
                fp == frames[c].formatted_prompt
                out == frames[c].generated_response
            IN  /\ Len(out) <= Len(full)
                /\ Len(fp) <= Len(full) =>
                     /\ Len(out) <= Len(full) - Len(fp)
                     /\ \E i \in Len(fp)..Len(full) : \E j \in i..Len(full) :
                          /\ out = SubSeq(full, i + 1, j)
                          /\ \A k \in (Len(fp) + 1)..i : full[k] \in Whitespace
                          /\ \A k \in (j + 1)..Len(full) : full[k] \in Whitespace
                /\ out # <<>> => out[1] \notin Whitespace /\ out[Len(out)] \notin Whitespace

\* a call returned a completion from a decoded text that starts with its
\* formatted prompt and has whitespace around the new text
C5_Witness ==
    \E c \in Callers :
        /\ frames[c].pc = "returned"
        /\ frames[c].formatted_prompt # <<>>
        /\ startswith(frames[c].full_response, frames[c].formatted_prompt)
        /\ frames[c].generated_response # <<>>
        /\ Len(frames[c].generated_response)
             < Len(frames[c].full_response) - Len(frames[c].formatted_prompt)

\* C6: a request that reached the handler has one outcome: 200, or 500 with
\* the cause of the failure; the server keeps running
C6_OneOutcome ==
    \A r \in Requests :
        /\ requests[r].responses <= 1
        /\ (requests[r].endpoint = "generate" /\ requests[r].state = "responded") =>
             /\ requests[r].responses = 1
             /\ mainPc = "api"
             /\ \/ /\ requests[r].status = 200
                   /\ requests[r].raises = "none"
                   /\ DOMAIN requests[r].body = {"response", "prompt", "generation_config"}
                \/ /\ requests[r].status = 500
                   /\ requests[r].raises \in Stages
                   /\ DOMAIN requests[r].body = {"detail"}
                   /\ requests[r].body.detail[Len(requests[r].body.detail)] = requests[r].raises

\* a request answered 500 and a request that arrived after it answered 200
C6_Witness ==
    \E r, q \in Requests :
        /\ requests[r].state = "responded" /\ requests[r].status = 500
        /\ requests[r].body.detail = <<"Erreur de generation: ", "generate">>
        /\ requests[q].endpoint = "generate"
        /\ requests[q].state = "responded" /\ requests[q].status = 200
        /\ requests[q].failuresBefore >= 1 /\ requests[r].failuresBefore = 0

\* C7: in the console a generation failure prints an error and the loop goes
\* back to AwaitingInput
C7_ConsoleFailureContinues ==
    [][(frames[Console].pc = "raised" /\ frames[Console].exc = "Exception"
            /\ frames'[Console].pc = "idle")
        => /\ conState' = "AwaitingInput"
           /\ stdout' = Append(stdout, [kind |-> "error", text |-> frames[Console].raises])
           /\ mainPc' = "interactive"
           /\ linesRead' = linesRead]_vars

\* after an error message a later line was read and answered
C7_Witness ==
    \E i, j \in 1..Len(stdout) :
        i < j /\ stdout[i].kind = "error" /\ stdout[j].kind = "response"

\* C8: end of input or an exit keyword, in any case, ends the loop without a
\* call of the engine, and once Exited nothing is read or called
C8_ExitWithoutEngine ==
    [][/\ (linesRead' = linesRead + 1 /\ lower(raw_line') \in ExitKeywords)
            => (conState' = "Exited" /\ engineCalls' = engineCalls /\ frames' = frames)
       /\ (input_event' = "EOFError" /\ input_event # "EOFError")
            => (conState' = "Exited" /\ engineCalls' = engineCalls /\ frames' = frames)
       /\ conState = "Exited"
            => /\ conState' = "Exited"
               /\ UNCHANGED <<linesRead, engineCalls, frames, input_event, raw_line>>]_vars

\* the loop ended on EXIT typed as the second line, after one generation
C8_Witness ==
    /\ conState = "Exited"
    /\ raw_line = <<"E", "X", "I", "T">>
    /\ linesRead = 2
    /\ engineCalls = 1

\* C9: an empty line goes back to AwaitingInput without a call of the engine;
\* the engine is called only for a non-empty line that is not an exit keyword
C9_EmptyLineSkipped ==
    [][/\ (linesRead' = linesRead + 1 /\ strip(raw_line') = <<>>)
            => (conState' = "AwaitingInput" /\ engineCalls' = engineCalls /\ frames' = frames)
       /\ engineCalls' # engineCalls
            => /\ strip(raw_line') # <<>>
               /\ lower(strip(raw_line')) \notin ExitKeywords
               /\ frames'[Console].prompt = strip(raw_line')]_vars

\* a blank line was read and the console awaits the next one
C9_Witness ==
    /\ conState = "AwaitingInput"
    /\ raw_line = <<" ">>
    /\ linesRead = 1
    /\ engineCalls = 0

goodbye == [kind |-> "goodbye", text |-> <<>>]

\* C10: a KeyboardInterrupt while AwaitingInput or Generating ends the loop:
\* the console goes to Exited, prints no generation error, reads nothing more
C10_InterruptExits ==
    [][/\ (input_event' = "KeyboardInterrupt" /\ input_event # "KeyboardInterrupt")
            => /\ conState = "AwaitingInput" /\ conState' = "Exited"
               /\ stdout' = Append(stdout, goodbye)
       /\ (frames[Console].exc = "KeyboardInterrupt" /\ frames'[Console] # frames[Console])
            => /\ conState = "Generating" /\ conState' = "Exited"
               /\ stdout' = Append(stdout, goodbye)
       /\ (conState = "Exited" \/ input_event = "KeyboardInterrupt")
            => linesRead' = linesRead /\ conState' = "Exited"]_vars

\* the loop ended by an interrupt during a generation
C10_Witness ==
    /\ conState = "Exited"
    /\ input_event = "line"
    /\ Len(stdout) >= 2
    /\ stdout[Len(stdout) - 1].kind = "label"
    /\ stdout[Len(stdout)].kind = "goodbye"

\* C11: no retries: a /generate request and a console line each cause at most
\* one call of ModelServer.generate and at most one call of self.model.generate,
\* whether the call succeeds or fails
C11_NoRetry ==
    /\ \A r \in Requests :
         /\ invocations[r].generate <= 1
         /\ invocations[r].model <= invocations[r].generate
         /\ requests[r].state \in {"unsent", "pending"} => invocations[r].generate = 0
         /\ (/\ requests[r].endpoint = "generate"
             /\ requests[r].state \in {"running", "responded"} /\ requests[r].status # 0)
                => invocations[r].generate = 1
    /\ invocations[Console].generate = engineCalls
    /\ invocations[Console].generate <= linesRead
    /\ invocations[Console].model <= invocations[Console].generate

\* a request whose model call failed was answered after one call of each
C11_Witness ==
    \E r \in Requests :
        /\ requests[r].state = "responded" /\ requests[r].status = 500
        /\ requests[r].raises = "generate"
        /\ invocations[r] = [generate |-> 1, model |-> 1]

\* C12: after a successful load the tokenizer's padding token is defined, for
\* every loaded tokenizer
C12_PadTokenDefined ==
    model_server.loaded => model_server.pad_token # "None"

\* a front end of the process is reachable, or was
FrontEndReached ==
    \/ mainPc \in {"dispatch", "interactive", "api", "done"}
    \/ front_ends # {}
    \/ conState # "Idle"
    \/ \E c \in Callers : frames[c].pc # "idle" \/ invocations[c].generate # 0
    \/ \E r \in Requests : requests[r].state # "unsent"

\* C13: a load-time failure (missing model path, model or tokenizer that does
\* not load) ends the process before a front end is started: main stops at
\* sys.exit(1) and nothing happens after it
C13_LoadFailureFatal ==
    /\ [](FrontEndReached =>
            args.model_path_exists /\ ~args.load_raises /\ model_server.loaded)
    /\ []((~args.model_path_exists \/ args.load_raises) =>
            mainPc \in {"check_path", "load", "exit1"})
    /\ [][mainPc # "exit1"]_vars

\* the process started for the API exited on a failed load
C13_Witness ==
    /\ mainPc = "exit1"
    /\ args.load_raises
    /\ args.mode = "api"
    /\ loads = 1

\* the texts the three wrapping templates give for the prompt "a"
chatml_of_a ==
    <<"<", "|", "i", "m", "_", "s", "t", "a", "r", "t", "|", ">", "u", "s", "e", "r",
      "\n", "a", "\n", "<", "|", "i", "m", "_", "e", "n", "d", "|", ">", "\n", "<",
      "|", "i", "m", "_", "s", "t", "a", "r", "t", "|", ">", "a", "s", "s", "i", "s",
      "t", "a", "n", "t", "\n">>

chat_of_a ==
    <<"H", "u", "m", "a", "n", ":", " ", "a", "\n", "\n", "A", "s", "s", "i", "s", "t",
      "a", "n", "t", ":", " ">>

instruct_of_a ==
    <<"#", "#", "#", " ", "I", "n", "s", "t", "r", "u", "c", "t", "i", "o", "n", ":",
      "\n", "a", "\n", "\n", "#", "#", "#", " ", "R", "e", "s", "p", "o", "n", "s",
      "e", ":", "\n">>

\* the wrapping of p: the text for "a" with p in the place of "a", which
\* starts after h characters
wrapped(text_of_a, h, p) ==
    SubSeq(text_of_a, 1, h) \o p \o SubSeq(text_of_a, h + 2, Len(text_of_a))

Formatted == {"formatted", "tokenized", "in_model", "generated", "decoded", "returned"}

\* C14: format_prompt returns the prompt unchanged for raw and for every
\* unrecognised template, the fixed wrapping with the prompt embedded once for
\* chatml, chat and instruct, and the same text for the same arguments
C14_FormatPrompt ==
    /\ \A c \in Callers :
         frames[c].pc \in Formatted =>
            LET p == frames[c].prompt
                t == frames[c].template
                fp == frames[c].formatted_prompt
            IN  /\ t \notin {"chatml", "chat", "instruct"} => fp = p
                /\ t = "chatml" => fp = wrapped(chatml_of_a, 17, p)
                /\ t = "chat" => fp = wrapped(chat_of_a, 7, p)
                /\ t = "instruct" => fp = wrapped(instruct_of_a, 17, p)
                /\ (t = "chatml" /\ p = <<"a">>) => fp = chatml_of_a
                /\ (t = "chat" /\ p = <<"a">>) => fp = chat_of_a
                /\ (t = "instruct" /\ p = <<"a">>) => fp = instruct_of_a
    /\ \A c, d \in Callers :
         (/\ frames[c].pc \in Formatted /\ frames[d].pc \in Formatted
          /\ frames[c].prompt = frames[d].prompt
          /\ frames[c].template = frames[d].template)
            => frames[c].formatted_prompt = frames[d].formatted_prompt

\* a call with an unrecognised template kept its non-empty prompt as it was
C14_Witness ==
    \E c \in Callers :
        /\ frames[c].pc = "formatted"
        /\ frames[c].template \notin {"chatml", "chat", "instruct", "raw", "None"}
        /\ frames[c].prompt # <<>>
        /\ frames[c].formatted_prompt = frames[c].prompt

\* the options of a generation, and the values the specification gives for
\* those that are not supplied
Options ==
    {"max_new_tokens", "temperature", "top_p", "repetition_penalty", "do_sample", "template"}

Defaults ==
    [max_new_tokens |-> 100, temperature |-> 7, top_p |-> 9, repetition_penalty |-> 11,
     do_sample |-> TRUE, template |-> "chatml"]

\* the options that reached the engine in an activation: the decoding
\* configuration handed to self.model.generate and the template used
reached(f) ==
    [o \in Options |-> IF o = "template" THEN f.template ELSE f.generation_config[o]]

Configured == {"tokenized", "in_model", "generated", "decoded", "returned"}

\* C15: an option that is not supplied reaches the engine with its default
\* (100, 0.7, 0.9, 1.1, sampling, chatml) and a supplied one unchanged, for an
\* API payload, for the console's command line and for a direct call
C15_Defaults ==
    /\ \A r \in Requests :
         frames[r].pc \in Configured =>
            \A o \in Options :
                reached(frames[r])[o] =
                    IF o \in DOMAIN requests[r].payload THEN requests[r].payload[o]
                    ELSE Defaults[o]
    /\ frames[Console].pc \in Configured =>
         /\ \A o \in Options : reached(frames[Console])[o] = args[o]
         /\ args = argparse_defaults => reached(frames[Console]) = Defaults
    /\ generate_call(<<"a">>, [prompt |-> <<"a">>], "none").params = Defaults
    /\ generate_call(<<"a">>, [temperature |-> 3], "none").params
         = [Defaults EXCEPT !.temperature = 3]

\* a payload with only a prompt reached the model with the defaults
C15_Witness ==
    \E r \in Requests :
        /\ DOMAIN requests[r].payload = {"prompt"}
        /\ frames[r].pc = "in_model"
        /\ reached(frames[r]) = Defaults

Echoed == {"max_new_tokens", "temperature", "top_p", "repetition_penalty", "template"}

\* C16: a success response holds the completion, the raw prompt and a
\* generation_config whose five entries are the values the engine was given
\* for that request; do_sample is not in it
C16_EchoedConfig ==
    \A r \in Requests :
        (/\ requests[r].endpoint = "generate"
         /\ requests[r].state = "responded" /\ requests[r].status = 200) =>
            LET body == requests[r].body
                given == [o \in Options |->
                            IF o = "template" THEN requests[r].engine_template
                            ELSE requests[r].engine_config[o]]
            IN  /\ DOMAIN body = {"response", "prompt", "generation_config"}
                /\ body.response = strip(requests[r].sample)
                /\ body.prompt = requests[r].payload.prompt
                /\ DOMAIN body.generation_config = Echoed
                /\ \A o \in Echoed : body.generation_config[o] = given[o]

\* a request that set its own options was answered with them, the prompt
\* differing from the formatted prompt of a default request answered too
C16_Witness ==
    \E r, q \in Requests :
        /\ requests[r].endpoint = "generate" /\ requests[q].endpoint = "generate"
        /\ requests[r].state = "responded" /\ requests[r].status = 200
        /\ requests[r].body.generation_config =
             [max_new_tokens |-> 5, temperature |-> 10, top_p |-> 10,
              repetition_penalty |-> 10, template |-> "plain"]
        /\ requests[q].state = "responded" /\ requests[q].status = 200
        /\ requests[q].body.generation_config.template = "chatml"
        /\ requests[q].body.prompt = <<"a">>

C18_HandlerNotSuspended ==
    /\ [](Cardinality(executing) <= 1)
    /\ [](\A q \in Requests :
            (requests[q].endpoint \in InfoEndpoints /\ requests[q].state = "responded")
                => requests[q].during = {} /\ requests[q].status = 200)
    /\ [][\A r \in executing : \A q \in Requests \ {r} :
            /\ frames'[q] = frames[q]
            /\ \/ requests'[q] = requests[q]
               \/ requests[q].state = "unsent" /\ requests'[q].state = "pending"]_vars

\* a /health request that arrived during a generation was answered after the
\* generation was
C18_Witness ==
    \E r, q \in Requests :
        /\ requests[q].endpoint = "health"
        /\ requests[q].arrivedBehind = {r}
        /\ requests[q].state = "responded"
        /\ requests[q].body = [status |-> "healthy", device |-> "cpu"]
        /\ requests[r].state = "responded"

\* C19: a process constructs one ModelServer, once, never reloads it, and
\* starts at most one front end on it, so calls of generate from the console
\* and from the API never occur in the same process
C19_OneServerOneFrontEnd ==
    /\ [](/\ loads <= 1
          /\ Cardinality(front_ends) <= 1
          /\ front_ends \subseteq {"interactive", "api"}
          /\ front_ends # {} => loads = 1 /\ model_server = ModelServer(args)
          /\ mainPc \in {"interactive", "api"} => front_ends = {mainPc}
          /\ "interactive" \notin front_ends =>
                conState = "Idle" /\ invocations[Console].generate = 0
          /\ "api" \notin front_ends =>
                \A r \in Requests :
                    requests[r].state = "unsent" /\ invocations[r].generate = 0)
    /\ [][/\ model_server.loaded => model_server' = model_server /\ loads' = loads
          /\ front_ends # {} => front_ends' = front_ends]_vars

\* the console was the one front end of a process that ended, after a call
C19_Witness ==
    /\ mainPc = "done"
    /\ front_ends = {"interactive"}
    /\ loads = 1
    /\ invocations[Console].generate >= 1
    /\ \A r \in Requests : invocations[r].generate = 0

====
